---- MODULE Spec2Model ----
(***************************************************************************)
(* A model of src/backend/index.js: an Express server over one Mongoose    *)
(* collection of transaction records.  GET /initialize-db bulk-inserts a   *)
(* remote dataset; /transactions, /statistics, /bar-chart and /pie-chart   *)
(* read the collection for one month; /combined-data calls the last three  *)
(* over HTTP and merges their bodies.                                      *)
(*                                                                         *)
(* Conventions of the model:                                               *)
(*   - a text (query parameter, title, date string) is a sequence of       *)
(*     one-character strings;                                              *)
(*   - an instant is a number of hours since RefYear-01-01T00:00Z;         *)
(*   - a price is a number of hundredths (15000 is 150.00), so that a      *)
(*     fractional price is an integer of the model;                        *)
(*   - a JSON object or stored document is a record whose DOMAIN holds     *)
(*     exactly the fields that are present.                                *)
(***************************************************************************)
EXTENDS Integers, Sequences, FiniteSets, TLC

\* Bounds of the model.
MaxData == 2        \* objects in the remote dataset
MaxInitCalls == 2   \* GET /initialize-db requests in one behaviour

\* Program constants.
RefYear == 2023     \* the year of the date template
PriceScale == 100   \* hundredths per price unit (the model's fixed point)

(***************************************************************************)
(* Texts and numbers.                                                      *)
(***************************************************************************)
Digits == {"0", "1", "2", "3", "4", "5", "6", "7", "8", "9"}

DigitValue(c) ==
    CASE c = "0" -> 0 [] c = "1" -> 1 [] c = "2" -> 2 [] c = "3" -> 3
      [] c = "4" -> 4 [] c = "5" -> 5 [] c = "6" -> 6 [] c = "7" -> 7
      [] c = "8" -> 8 [] c = "9" -> 9

IsDigits(t) == Len(t) > 0 /\ \A i \in 1..Len(t) : t[i] \in Digits

\* ToNumber of a text of decimal digits (the coercion of "2" - 1, Number("10")).
RECURSIVE ToNumber(_)
ToNumber(t) ==
    IF Len(t) = 0 THEN 0
    ELSE 10 * ToNumber(SubSeq(t, 1, Len(t) - 1)) + DigitValue(t[Len(t)])

\* String(undefined), what a template literal makes of a missing parameter.
UndefinedText == <<"u", "n", "d", "e", "f", "i", "n", "e", "d">>

(***************************************************************************)
(* The calendar of ECMAScript's Date, in hours since RefYear-01-01T00:00Z. *)
(***************************************************************************)
IsLeap(y) == (y % 4 = 0 /\ y % 100 # 0) \/ y % 400 = 0

DaysInYear(y) == IF IsLeap(y) THEN 366 ELSE 365

\* m is a month index 0..11, as Date.prototype.getMonth gives it.
DaysInMonth(y, m) ==
    CASE m = 1 -> IF IsLeap(y) THEN 29 ELSE 28
      [] m \in {3, 5, 8, 10} -> 30
      [] OTHER -> 31

RECURSIVE YearStartDay(_)
YearStartDay(y) ==
    IF y = RefYear THEN 0
    ELSE IF y > RefYear THEN YearStartDay(y - 1) + DaysInYear(y - 1)
    ELSE YearStartDay(y + 1) - DaysInYear(y)

RECURSIVE MonthStartDay(_, _)
MonthStartDay(y, m) ==
    IF m = 0 THEN YearStartDay(y)
    ELSE MonthStartDay(y, m - 1) + DaysInMonth(y, m - 1)

\* ECMAScript MakeDay: a month index past 11 carries into the year, a day
\* past the month's end runs on into the next month.
MakeDay(y, m, d) == MonthStartDay(y + (m \div 12), m % 12) + d - 1

YearOfDay(day) ==
    CHOOSE y \in (RefYear - 2)..(RefYear + 2) :
        YearStartDay(y) <= day /\ day < YearStartDay(y + 1)

MonthOfDay(day) ==
    LET y == YearOfDay(day)
    IN  CHOOSE m \in 0..11 :
            /\ MonthStartDay(y, m) <= day
            /\ day < MonthStartDay(y, m) + DaysInMonth(y, m)

DateOfDay(day) == day - MonthStartDay(YearOfDay(day), MonthOfDay(day)) + 1

\* A Date object: a time value, or NaN (an Invalid Date).
InvalidDate == [valid |-> FALSE, t |-> 0]

ValidDate(t) == [valid |-> TRUE, t |-> t]

\* The instant of hour `h` (UTC) of day `d` of month `m` (1..12) of RefYear:
\* the dateOfSale values of the catalogue are written with it.
UtcInstant(m, d, h) == 24 * MakeDay(RefYear, m - 1, d) + h

(***************************************************************************)
(* new Date(`2023-${month}-01`).                                           *)
(***************************************************************************)
YearText == <<"2", "0", "2", "3">>

\* The template literal of lines 51, 74, 100, 127, 172: `query` is req.query.
DateString(query) ==
    YearText \o <<"-">>
        \o (IF "month" \in DOMAIN query THEN query.month ELSE UndefinedText)
        \o <<"-", "0", "1">>

\* The date-only ISO form YYYY-MM-DD, which ECMAScript reads as UTC.
IsIsoDate(s) ==
    /\ Len(s) = 10
    /\ s[5] = "-" /\ s[8] = "-"
    /\ IsDigits(SubSeq(s, 1, 4)) /\ IsDigits(SubSeq(s, 6, 7))
    /\ IsDigits(SubSeq(s, 9, 10))

\* The form YYYY-M-DD is no ISO form; V8's fallback parser reads it as a
\* date of the server's local time zone.
IsLegacyDate(s) ==
    /\ Len(s) = 9
    /\ s[5] = "-" /\ s[7] = "-"
    /\ IsDigits(SubSeq(s, 1, 4)) /\ IsDigits(SubSeq(s, 6, 6))
    /\ IsDigits(SubSeq(s, 8, 9))

\* new Date(s) on a server whose local time is UTC + zone hours.
ParseDate(s, zone) ==
    IF IsIsoDate(s) THEN
        LET y == ToNumber(SubSeq(s, 1, 4))
            m == ToNumber(SubSeq(s, 6, 7))
            d == ToNumber(SubSeq(s, 9, 10))
        IN  IF m \in 1..12 /\ d \in 1..DaysInMonth(y, m - 1)
            THEN ValidDate(24 * MakeDay(y, m - 1, d))
            ELSE InvalidDate
    ELSE IF IsLegacyDate(s) THEN
        LET y == ToNumber(SubSeq(s, 1, 4))
            m == ToNumber(SubSeq(s, 6, 6))
            d == ToNumber(SubSeq(s, 8, 9))
        IN  IF m \in 1..12 /\ d \in 1..DaysInMonth(y, m - 1)
            THEN ValidDate(24 * MakeDay(y, m - 1, d) - zone)
            ELSE InvalidDate
    ELSE InvalidDate

\* endDate = new Date(startDate); endDate.setMonth(endDate.getMonth() + 1):
\* getMonth and setMonth work on the fields of the local time.
NextMonth(date, zone) ==
    IF ~date.valid THEN InvalidDate
    ELSE LET local == date.t + zone
             day == local \div 24
             hour == local % 24
         IN  ValidDate(24 * MakeDay(YearOfDay(day), MonthOfDay(day) + 1,
                                    DateOfDay(day)) + hour - zone)

StartDate(query, zone) == ParseDate(DateString(query), zone)

EndDate(query, zone) == NextMonth(StartDate(query, zone), zone)

(***************************************************************************)
(* The schema and the documents.                                           *)
(***************************************************************************)
\* transactionSchema: the paths of a document and their schema types.
Schema ==
    [title |-> "String", description |-> "String", price |-> "Number",
     dateOfSale |-> "Date", sold |-> "Boolean", category |-> "String"]

\* Objects the remote dataset may hold.  Besides the schema's paths they
\* carry an id, as the objects of the dataset do; any path may be missing.
ObjSeeded ==
    [id |-> 1, title |-> <<"A", "b">>, description |-> <<"c">>,
     price |-> 150 * PriceScale, dateOfSale |-> UtcInstant(3, 15, 12),
     sold |-> TRUE, category |-> "X"]

ObjYearEnd ==
    [id |-> 2, title |-> <<"b", "c">>, description |-> <<"a">>,
     price |-> 950 * PriceScale, dateOfSale |-> UtcInstant(12, 31, 12),
     sold |-> FALSE, category |-> "Y"]

\* Neither price nor sold.
ObjBare ==
    [id |-> 3, title |-> <<"c">>, description |-> <<"B">>,
     dateOfSale |-> UtcInstant(3, 1, 2), category |-> "X"]

\* A negative, fractional price (-0.50), no category, at the first instant
\* of a month.
ObjRefund ==
    [id |-> 4, title |-> <<"a">>, description |-> <<"a">>,
     price |-> 0 - 50, dateOfSale |-> UtcInstant(12, 1, 0),
     sold |-> FALSE]

Catalogue == {ObjSeeded, ObjYearEnd, ObjBare, ObjRefund}

RECURSIVE SeqsUpTo(_, _)
SeqsUpTo(S, n) ==
    IF n = 0 THEN {<<>>}
    ELSE LET shorter == SeqsUpTo(S, n - 1)
         IN  shorter \cup {Append(q, x) : q \in shorter, x \in S}

\* The datasets the remote URL may serve: up to n objects of the catalogue,
\* listed by ascending id.
Datasets(n) ==
    {q \in SeqsUpTo(Catalogue, n) :
        \A i \in 1..(Len(q) - 1) : q[i].id < q[i + 1].id}

\* A document of the model built from an object: the schema is strict, so a
\* path it does not declare (id) is dropped, and a missing path stays
\* missing.
ToDocument(obj) == [p \in DOMAIN obj \cap DOMAIN Schema |-> obj[p]]

ToDocuments(objs) == [i \in 1..Len(objs) |-> ToDocument(objs[i])]

\* An insertMany that skips an object whose document is already stored.
InsertMany_Dedup(docs, objs) ==
    docs \o SelectSeq(ToDocuments(objs),
                      LAMBDA d : \A i \in 1..Len(docs) : docs[i] # d)

\* Transaction.insertMany(transactions): every object becomes a new document
\* after the ones already stored.
InsertMany(docs, objs) == docs \o ToDocuments(objs)

(***************************************************************************)
(* Filters.  A condition is [path, op, value]; a filter holds the          *)
(* conditions that must all hold and, under $or, those of which one must.  *)
(***************************************************************************)
Lower(c) == CASE c = "A" -> "a" [] c = "B" -> "b" [] c = "C" -> "c" [] OTHER -> c

\* new RegExp(pattern, "i").test(text), for a pattern of letters only.
RegexTestNoCase(text, pattern) ==
    \E i \in 0..(Len(text) - Len(pattern)) :
        \A j \in 1..Len(pattern) : Lower(text[i + j]) = Lower(pattern[j])

Holds(doc, c) ==
    /\ c.path \in DOMAIN doc
    /\ CASE c.op = "$gte" -> doc[c.path] >= c.value.t
         [] c.op = "$lt" -> doc[c.path] < c.value.t
         [] c.op = "$eq" -> doc[c.path] = c.value
         [] c.op = "$regex" -> RegexTestNoCase(doc[c.path], c.value)

Satisfies(doc, filter) ==
    /\ \A i \in 1..Len(filter.all) : Holds(doc, filter.all[i])
    /\ \/ Len(filter.any) = 0
       \/ \E i \in 1..Len(filter.any) : Holds(doc, filter.any[i])

\* { dateOfSale: { $gte: startDate, $lt: endDate } }
DateConditions(startDate, endDate) ==
    << [path |-> "dateOfSale", op |-> "$gte", value |-> startDate],
       [path |-> "dateOfSale", op |-> "$lt", value |-> endDate] >>

\* Mongoose casts the filter of a Query (find, countDocuments) by the schema
\* before it is sent; it does not cast an aggregation pipeline.  The cast
\* throws for an Invalid Date on a Date path, and for $regex on a path that
\* is no String: the Number type has no $regex handler ("Can't use $regex
\* with Number").
CastFails(c) ==
    \/ c.op = "$regex" /\ Schema[c.path] # "String"
    \/ Schema[c.path] = "Date" /\ ~c.value.valid

CastError(filter) ==
    \/ \E i \in 1..Len(filter.all) : CastFails(filter.all[i])
    \/ \E i \in 1..Len(filter.any) : CastFails(filter.any[i])

Select(docs, filter) == SelectSeq(docs, LAMBDA d : Satisfies(d, filter))

\* The $match stage shared by the three aggregations.
MatchStage(docs, startDate, endDate) ==
    Select(docs, [all |-> DateConditions(startDate, endDate), any |-> <<>>])

(***************************************************************************)
(* GET /statistics.                                                        *)
(***************************************************************************)
\* $sum: "$price" adds the numeric prices; a missing price adds nothing.
RECURSIVE SumPrice(_)
SumPrice(docs) ==
    IF Len(docs) = 0 THEN 0
    ELSE (IF "price" \in DOMAIN Head(docs) THEN Head(docs).price ELSE 0)
             + SumPrice(Tail(docs))

\* $cond: ["$sold", 1, 0]: 1 for a document whose sold is true, 0 for one
\* whose sold is false or missing.
SoldCond(doc) == IF "sold" \in DOMAIN doc /\ doc.sold THEN 1 ELSE 0

RECURSIVE SumSold(_)
SumSold(docs) ==
    IF Len(docs) = 0 THEN 0 ELSE SoldCond(Head(docs)) + SumSold(Tail(docs))

\* The aggregation of lines 79-82: $group with _id null gives one group when
\* a document matched and none otherwise.
TotalSales(docs, startDate, endDate) ==
    LET matched == MatchStage(docs, startDate, endDate)
    IN  IF Len(matched) = 0 THEN <<>>
        ELSE << [totalAmount |-> SumPrice(matched),
                 soldItems |-> SumSold(matched)] >>

\* The filter of countDocuments, line 84.
UnsoldFilter(startDate, endDate) ==
    [all |-> << [path |-> "sold", op |-> "$eq", value |-> FALSE] >>
                \o DateConditions(startDate, endDate),
     any |-> <<>>]

TotalUnsold(docs, startDate, endDate) ==
    Len(Select(docs, UnsoldFilter(startDate, endDate)))

\* The object of res.json, lines 86-90.
StatisticsBody(totalSales, totalUnsold) ==
    [totalAmount |-> IF Len(totalSales) > 0 THEN totalSales[1].totalAmount ELSE 0,
     soldItems |-> IF Len(totalSales) > 0 THEN totalSales[1].soldItems ELSE 0,
     unsoldItems |-> totalUnsold]

(***************************************************************************)
(* GET /bar-chart.                                                         *)
(***************************************************************************)
\* boundaries, without the closing Infinity: the last bucket [900, Infinity)
\* has no upper bound.
Boundaries == <<0, 100, 200, 300, 400, 500, 600, 700, 800, 900>>

NumberId(n) == [number |-> n]

\* default: "901-above"
DefaultId == [string |-> "901-above"]

\* $bucket's choice for one document: the bucket of the greatest boundary
\* not above the price; the default bucket for a price under the first
\* boundary or a missing price.
BucketOf(doc) ==
    IF "price" \in DOMAIN doc /\ doc.price >= Boundaries[1] * PriceScale
    THEN LET k == CHOOSE i \in 1..Len(Boundaries) :
                      /\ Boundaries[i] * PriceScale <= doc.price
                      /\ i < Len(Boundaries)
                             => doc.price < Boundaries[i + 1] * PriceScale
         IN  NumberId(Boundaries[k])
    ELSE DefaultId

BucketIds == [i \in 1..Len(Boundaries) |-> NumberId(Boundaries[i])] \o <<DefaultId>>

\* A $bucket without its default bucket.
PriceRanges_NoDefault(docs, startDate, endDate) ==
    LET matched == MatchStage(docs, startDate, endDate)
        count(id) == Len(SelectSeq(matched, LAMBDA d : BucketOf(d) = id))
        all == [i \in 1..Len(Boundaries) |->
                   [id |-> NumberId(Boundaries[i]),
                    count |-> count(NumberId(Boundaries[i]))]]
    IN  SelectSeq(all, LAMBDA b : b.count > 0)

\* The array $bucket gives: one {_id, count} per bucket that received a
\* document, by ascending _id, the default bucket last.
PriceRanges(docs, startDate, endDate) ==
    LET matched == MatchStage(docs, startDate, endDate)
        count(id) == Len(SelectSeq(matched, LAMBDA d : BucketOf(d) = id))
        all == [i \in 1..Len(BucketIds) |->
                   [id |-> BucketIds[i], count |-> count(BucketIds[i])]]
    IN  SelectSeq(all, LAMBDA b : b.count > 0)

(***************************************************************************)
(* GET /pie-chart.                                                         *)
(***************************************************************************)
NullId == [null |-> TRUE]

\* The _id of a document's group: its category, null when it has none.
CategoryId(doc) ==
    IF "category" \in DOMAIN doc THEN [string |-> doc.category] ELSE NullId

\* $group emits its groups in no specified order: the array is modelled as
\* the set of its elements.
Categories(docs, startDate, endDate) ==
    LET matched == MatchStage(docs, startDate, endDate)
        ids == {CategoryId(matched[i]) : i \in 1..Len(matched)}
    IN  {[id |-> g,
          count |-> Len(SelectSeq(matched, LAMBDA d : CategoryId(d) = g))]
            : g \in ids}

(***************************************************************************)
(* GET /transactions.                                                      *)
(***************************************************************************)
DefaultPage == 1
DefaultPerPage == 10

\* const { page = 1, perPage = 10, search = "", month } = req.query
PageOf(query) ==
    IF "page" \in DOMAIN query THEN ToNumber(query.page) ELSE DefaultPage

PerPageOf(query) ==
    IF "perPage" \in DOMAIN query THEN ToNumber(query.perPage) ELSE DefaultPerPage

SearchOf(query) == IF "search" \in DOMAIN query THEN query.search ELSE <<>>

\* The filter of Transaction.find, lines 57-60 and 178-181.
TransactionsFilter(query, zone) ==
    [all |-> DateConditions(StartDate(query, zone), EndDate(query, zone)),
     any |-> << [path |-> "title", op |-> "$regex", value |-> SearchOf(query)],
                [path |-> "description", op |-> "$regex", value |-> SearchOf(query)],
                [path |-> "price", op |-> "$regex", value |-> SearchOf(query)] >>]

\* .skip(n).limit(m) over the documents in stored order; limit(0) is no
\* limit.
SkipLimit(docs, skip, limit) ==
    LET rest == SubSeq(docs, skip + 1, Len(docs))
    IN  IF limit = 0 \/ limit >= Len(rest) THEN rest ELSE SubSeq(rest, 1, limit)

TextBody(t) == [text |-> t]

Response(status, body) == [status |-> status, body |-> body]

\* try { find } catch: lines 55-67.  The query is cast when it is executed;
\* a negative skip is rejected by the store.
FindResponse(query, zone, docs) ==
    LET filter == TransactionsFilter(query, zone)
        skip == (PageOf(query) - 1) * PerPageOf(query)
    IN  IF CastError(filter) \/ skip < 0
        THEN Response(500, TextBody("Error fetching transactions"))
        ELSE Response(200, SkipLimit(Select(docs, filter), skip, PerPageOf(query)))

\* The handler registered at line 47.
TransactionsFirst(query, zone, docs) == FindResponse(query, zone, docs)

\* !month || month < 1 || month > 12
InvalidMonth(query) ==
    \/ "month" \notin DOMAIN query
    \/ Len(query.month) = 0
    \/ ToNumber(query.month) < 1
    \/ ToNumber(query.month) > 12

\* The handler registered at line 163.
TransactionsSecond(query, zone, docs) ==
    IF InvalidMonth(query)
    THEN Response(400, [error |-> "Invalid month parameter"])
    ELSE FindResponse(query, zone, docs)

\* The paths of the app.get calls, in the order they are registered.
Routes ==
    << "/initialize-db", "/transactions", "/statistics", "/bar-chart",
       "/pie-chart", "/combined-data", "/transactions" >>

\* Express runs the first route registered for the path; a later one runs
\* only when that handler calls next(), which no handler here does.
Dispatch(path) ==
    CHOOSE i \in 1..Len(Routes) :
        Routes[i] = path /\ \A j \in 1..(i - 1) : Routes[j] # path

TransactionsHandler(query, zone, docs) ==
    IF Dispatch("/transactions") = 2
    THEN TransactionsFirst(query, zone, docs)
    ELSE TransactionsSecond(query, zone, docs)

(***************************************************************************)
(* The state.                                                              *)
(***************************************************************************)
VARIABLES
    tz,         \* the server's local time, in hours east of UTC
    connected,  \* whether mongoose.connect reached the store
    remote,     \* the dataset the remote URL serves
    store,      \* the collection: its documents in insertion order
    fetching,   \* /initialize-db handlers awaiting axios.get
    inserting,  \* /initialize-db handlers awaiting insertMany
    calls,      \* /initialize-db requests received
    okInits,    \* /initialize-db requests answered 200
    stat,       \* the /statistics handler in flight
    bar,        \* the /bar-chart handler in flight
    pie,        \* the /pie-chart handler in flight
    comb,       \* the /combined-data handler and its three promises
    last        \* the response to the reading client's latest request

vars ==
    << tz, connected, remote, store, fetching, inserting, calls, okInits,
       stat, bar, pie, comb, last >>

\* Offsets of the time zones a server may run in.
TimeZones == {0 - 5, 0, 5}

MonthTexts == { <<"3">>, <<"1", "2">> }

NoQuery == [p \in {} |-> <<>>]

MonthQueries == {NoQuery} \cup {[month |-> m] : m \in MonthTexts}

TransactionsQueries ==
    { m @@ p @@ n @@ s :
        m \in MonthQueries \cup {[month |-> <<"1", "3">>]},
        p \in {NoQuery, [page |-> <<"2">>]},
        n \in {NoQuery, [perPage |-> <<"1">>]},
        s \in {NoQuery, [search |-> <<"b">>]} }

Idle == [pc |-> "idle"]

NoResponse == [ep |-> "none"]

Pending == [state |-> "pending"]

\* mongoose.connect(...).then(...).catch(...): the server runs whether or not
\* the store was reached; a query on a store that was not reached is
\* rejected.
Init ==
    /\ tz \in TimeZones
    /\ connected \in BOOLEAN
    /\ remote \in Datasets(MaxData)
    /\ store = <<>>
    /\ fetching = 0 /\ inserting = 0 /\ calls = 0 /\ okInits = 0
    /\ stat = Idle /\ bar = Idle /\ pie = Idle /\ comb = Idle
    /\ last = NoResponse

Environment == << tz, connected, remote >>

(***************************************************************************)
(* GET /initialize-db, lines 33-44.                                        *)
(***************************************************************************)
InitializeDbRequest ==
    /\ calls < MaxInitCalls
    /\ calls' = calls + 1
    /\ fetching' = fetching + 1
    /\ UNCHANGED << Environment, store, inserting, okInits, stat, bar, pie, comb, last >>

\* axios.get resolved: response.data is the dataset.
InitializeDbFetched ==
    /\ fetching > 0
    /\ fetching' = fetching - 1
    /\ inserting' = inserting + 1
    /\ UNCHANGED << Environment, store, calls, okInits, stat, bar, pie, comb, last >>

\* axios.get rejected: 500.
InitializeDbFetchFailed ==
    /\ fetching > 0
    /\ fetching' = fetching - 1
    /\ UNCHANGED << Environment, store, inserting, calls, okInits, stat, bar, pie, comb, last >>

\* insertMany resolved: 200.
InitializeDbInserted ==
    /\ inserting > 0
    /\ connected
    /\ inserting' = inserting - 1
    /\ store' = InsertMany(store, remote)
    /\ okInits' = okInits + 1
    /\ UNCHANGED << Environment, fetching, calls, stat, bar, pie, comb, last >>

\* insertMany rejected, nothing written: 500.
InitializeDbInsertFailed ==
    /\ inserting > 0
    /\ ~connected
    /\ inserting' = inserting - 1
    /\ UNCHANGED << Environment, store, fetching, calls, okInits, stat, bar, pie, comb, last >>

(***************************************************************************)
(* Responses.  A handler started by the reading client answers into        *)
(* `last`; one started by /combined-data settles the promise of its        *)
(* axios.get, and the continuation of Promise.all runs with it: on the     *)
(* first rejection the catch block answers 500, on the third fulfilment    *)
(* the merged object is sent.  `since` and `at` are the numbers of stored  *)
(* documents when the request arrived and when it was answered.            *)
(***************************************************************************)
Answer(ep, query, since, resp) ==
    [ep |-> ep, query |-> query, status |-> resp.status, body |-> resp.body,
     since |-> since, at |-> Len(store)]

\* axios rejects a response whose status is not 2xx.
Settle(resp) ==
    IF resp.status >= 200 /\ resp.status < 300
    THEN [state |-> "fulfilled", data |-> resp.body]
    ELSE [state |-> "rejected"]

Parts == {"statistics", "barChart", "pieChart"}

\* res.json of lines 154-158.
CombinedBody(settled) ==
    [statistics |-> settled.statistics.data,
     barChart |-> settled.barChart.data,
     pieChart |-> settled.pieChart.data]

\* A handler that joins with Promise.allSettled: it answers when the last
\* promise settles, 500 if one was rejected.
CombinedOutcome_AllSettled(c, part, resp) ==
    LET settled == [c.settled EXCEPT ![part] = Settle(resp)]
    IN  IF \E q \in Parts : settled[q].state = "pending"
        THEN [comb |-> [c EXCEPT !.settled = settled], answers |-> FALSE]
        ELSE [comb |-> [c EXCEPT !.settled = settled, !.pc = "responded"],
              answers |-> TRUE,
              resp |-> IF \A q \in Parts : settled[q].state = "fulfilled"
                       THEN Response(200, CombinedBody(settled))
                       ELSE Response(500, TextBody("Error fetching combined data"))]

\* What the handler of /combined-data does when the promise `part` settles
\* with `resp`: Promise.all rejects with the first rejection and fulfils
\* with the last fulfilment.  A promise that settles after the rejection is
\* read by nobody: only its state is kept.
CombinedOutcome(c, part, resp) ==
    LET settled == [c.settled EXCEPT ![part] = Settle(resp)]
    IN  IF c.pc = "waiting" /\ settled[part].state = "rejected"
        THEN [comb |-> [c EXCEPT !.settled = settled, !.pc = "responded"],
              answers |-> TRUE,
              resp |-> Response(500, TextBody("Error fetching combined data"))]
        ELSE IF c.pc = "waiting"
                 /\ \A q \in Parts : settled[q].state = "fulfilled"
        THEN [comb |-> [c EXCEPT !.settled = settled, !.pc = "responded"],
              answers |-> TRUE,
              resp |-> Response(200, CombinedBody(settled))]
        ELSE IF c.pc = "waiting"
        THEN [comb |-> [c EXCEPT !.settled = settled], answers |-> FALSE]
        ELSE [comb |-> [c EXCEPT !.settled[part] = [state |-> settled[part].state]],
              answers |-> FALSE]

Deliver(h, ep, part, resp) ==
    IF h.from = "client"
    THEN /\ last' = Answer(ep, h.query, h.since, resp)
         /\ comb' = comb
    ELSE LET out == CombinedOutcome(comb, part, resp)
         IN  /\ comb' = out.comb
             /\ last' = IF out.answers
                        THEN Answer("/combined-data", comb.query, comb.since, out.resp)
                        ELSE last

\* No request of the reading client, and no request /combined-data sent for
\* it, is in flight.
Quiet ==
    /\ stat.pc = "idle" /\ bar.pc = "idle" /\ pie.pc = "idle"
    /\ comb.pc # "waiting"

\* The reading client sends one request at a time, after it has taken the
\* response to the one before.
ClientReady == Quiet /\ last = NoResponse /\ comb = Idle

UnchangedStore ==
    UNCHANGED << Environment, store, fetching, inserting, calls, okInits >>

ClientTakesResponse ==
    /\ Quiet
    /\ last # NoResponse
    /\ last' = NoResponse
    /\ comb' = Idle
    /\ UNCHANGED << stat, bar, pie >>
    /\ UnchangedStore

\* A handler at its first await: `from` is who sent the request.
Started(pc, from, query) ==
    [pc |-> pc, from |-> from, query |-> query, since |-> Len(store)]

(***************************************************************************)
(* GET /transactions: one query, answered when it settles.                 *)
(***************************************************************************)
Transactions ==
    \E query \in TransactionsQueries :
        /\ ClientReady
        /\ last' = Answer("/transactions", query, Len(store),
                          IF connected
                          THEN TransactionsHandler(query, tz, store)
                          ELSE Response(500, TextBody("Error fetching transactions")))
        /\ UNCHANGED << stat, bar, pie, comb >>
        /\ UnchangedStore

(***************************************************************************)
(* GET /statistics, lines 71-94: two queries, one after the other.         *)
(***************************************************************************)
StatisticsRequest ==
    \E query \in MonthQueries :
        /\ ClientReady
        /\ stat' = Started("aggregate", "client", query)
        /\ UNCHANGED << bar, pie, comb, last >>
        /\ UnchangedStore

\* The catch block, line 92.
StatisticsCatch ==
    /\ stat' = Idle
    /\ Deliver(stat, "/statistics", "statistics",
               Response(500, TextBody("Error fetching statistics")))

\* await Transaction.aggregate(...): the pipeline goes to the store as it
\* is, an Invalid Date as a date no document's dateOfSale lies beside.
StatisticsAggregate ==
    /\ stat.pc = "aggregate"
    /\ \/ /\ connected
          /\ stat' = [stat EXCEPT !.pc = "count"]
                         @@ [totalSales |-> TotalSales(store, StartDate(stat.query, tz),
                                                       EndDate(stat.query, tz))]
          /\ UNCHANGED << comb, last >>
       \/ /\ ~connected
          /\ StatisticsCatch
    /\ UNCHANGED << bar, pie >>
    /\ UnchangedStore

\* await Transaction.countDocuments(...), then res.json.
StatisticsCount ==
    /\ stat.pc = "count"
    /\ LET startDate == StartDate(stat.query, tz)
           endDate == EndDate(stat.query, tz)
       IN  \/ /\ ~CastError(UnsoldFilter(startDate, endDate))
              /\ stat' = Idle
              /\ Deliver(stat, "/statistics", "statistics",
                         Response(200, StatisticsBody(stat.totalSales,
                                          TotalUnsold(store, startDate, endDate))))
           \/ /\ CastError(UnsoldFilter(startDate, endDate))
              /\ StatisticsCatch
    /\ UNCHANGED << bar, pie >>
    /\ UnchangedStore

(***************************************************************************)
(* GET /bar-chart, lines 97-121.                                           *)
(***************************************************************************)
BarChartRequest ==
    \E query \in MonthQueries :
        /\ ClientReady
        /\ bar' = Started("aggregate", "client", query)
        /\ UNCHANGED << stat, pie, comb, last >>
        /\ UnchangedStore

BarChartResponse(query, zone, docs) ==
    Response(200, PriceRanges(docs, StartDate(query, zone), EndDate(query, zone)))

BarChartAggregate ==
    /\ bar.pc = "aggregate"
    /\ bar' = Idle
    /\ Deliver(bar, "/bar-chart", "barChart",
               IF connected
               THEN BarChartResponse(bar.query, tz, store)
               ELSE Response(500, TextBody("Error fetching bar chart data")))
    /\ UNCHANGED << stat, pie >>
    /\ UnchangedStore

(***************************************************************************)
(* GET /pie-chart, lines 124-141.                                          *)
(***************************************************************************)
PieChartRequest ==
    \E query \in MonthQueries :
        /\ ClientReady
        /\ pie' = Started("aggregate", "client", query)
        /\ UNCHANGED << stat, bar, comb, last >>
        /\ UnchangedStore

PieChartResponse(query, zone, docs) ==
    Response(200, Categories(docs, StartDate(query, zone), EndDate(query, zone)))

PieChartAggregate ==
    /\ pie.pc = "aggregate"
    /\ pie' = Idle
    /\ Deliver(pie, "/pie-chart", "pieChart",
               IF connected
               THEN PieChartResponse(pie.query, tz, store)
               ELSE Response(500, TextBody("Error fetching pie chart data")))
    /\ UNCHANGED << stat, bar >>
    /\ UnchangedStore

(***************************************************************************)
(* GET /combined-data, lines 144-162.                                      *)
(***************************************************************************)
\* Self-requests that always ask for the same month.
SelfQuery_Fixed(query) == [month |-> <<"3">>]

\* `?month=${month}`: the query of the three requests the server sends to
\* itself; a missing month goes out as the text "undefined".
SelfQuery(query) ==
    [month |-> IF "month" \in DOMAIN query THEN query.month ELSE UndefinedText]

\* The three axios.get calls are made one after the other without an await
\* between them; Promise.all then awaits the three promises.
CombinedRequest ==
    \E query \in MonthQueries :
        /\ ClientReady
        /\ comb' = [pc |-> "waiting", query |-> query, since |-> Len(store),
                    settled |-> [p \in Parts |-> Pending]]
        /\ stat' = Started("aggregate", "combined", SelfQuery(query))
        /\ bar' = Started("aggregate", "combined", SelfQuery(query))
        /\ pie' = Started("aggregate", "combined", SelfQuery(query))
        /\ UNCHANGED last
        /\ UnchangedStore

Next ==
    \/ InitializeDbRequest
    \/ InitializeDbFetched
    \/ InitializeDbFetchFailed
    \/ InitializeDbInserted
    \/ InitializeDbInsertFailed
    \/ Transactions
    \/ StatisticsRequest
    \/ StatisticsAggregate
    \/ StatisticsCount
    \/ BarChartRequest
    \/ BarChartAggregate
    \/ PieChartRequest
    \/ PieChartAggregate
    \/ CombinedRequest
    \/ ClientTakesResponse

Spec == Init /\ [][Next]_vars

(***************************************************************************)
(* What the claims speak of.                                               *)
(***************************************************************************)
\* The collection as it was when it held n documents: documents are only
\* ever appended.
StoreAt(n) == SubSeq(store, 1, n)

\* A month parameter that names a month 1..12.
ValidMonth(query) == ~InvalidMonth(query)

MonthNumber(query) == ToNumber(query.month)

\* The documents of `docs` sold in month m (1..12) of RefYear, the month
\* being read in the time zone `offset` hours east of UTC: from the first
\* instant of its first day up to the first instant of the following month.
InMonth(docs, m, offset) ==
    SelectSeq(docs, LAMBDA d :
        /\ "dateOfSale" \in DOMAIN d
        /\ UtcInstant(m, 1, 0) - offset <= d.dateOfSale
        /\ d.dateOfSale < 24 * MakeDay(RefYear, m, 1) - offset)

\* The documents the date filter of a request selects.
Selected(docs, query) ==
    MatchStage(docs, StartDate(query, tz), EndDate(query, tz))

RECURSIVE SumCounts(_)
SumCounts(buckets) ==
    IF Len(buckets) = 0 THEN 0
    ELSE Head(buckets).count + SumCounts(Tail(buckets))

RECURSIVE SumGroupCounts(_)
SumGroupCounts(groups) ==
    IF groups = {} THEN 0
    ELSE LET g == CHOOSE x \in groups : TRUE
         IN  g.count + SumGroupCounts(groups \ {g})

\* The count a /bar-chart body gives for the bucket `id`.
CountAt(buckets, id) ==
    SumCounts(SelectSeq(buckets, LAMBDA b : b.id = id))

Succeeded(ep) == last.ep = ep /\ last.status = 200

(***************************************************************************)
(* C1.  Every GET /transactions whose month is missing or outside 1..12 is *)
(* answered 400 {error: "Invalid month parameter"}, never 200 or 500.      *)
(* Stated for a server that reached its store.  The handler that runs is   *)
(* the one registered first, which does not validate: C1_Claim is violated.*)
(***************************************************************************)
C1_Claim ==
    (connected /\ last.ep = "/transactions" /\ InvalidMonth(last.query))
        => /\ last.status = 400
           /\ last.body = [error |-> "Invalid month parameter"]

(***************************************************************************)
(* C2.  A successful GET /statistics?month=m has soldItems + unsoldItems   *)
(* equal to the number of stored documents sold in month m, whatever the   *)
(* store holds, a document without a sold flag included.  Stated where     *)
(* nothing else can disturb it: the server runs in UTC and no document was *)
(* inserted while the request was handled.  A document without sold is     *)
(* counted on neither side: C2_Claim is violated.                          *)
(***************************************************************************)
C2_Claim ==
    (/\ Succeeded("/statistics") /\ ValidMonth(last.query)
     /\ tz = 0 /\ last.since = last.at)
        => last.body.soldItems + last.body.unsoldItems
               = Len(InMonth(StoreAt(last.at), MonthNumber(last.query), 0))

(***************************************************************************)
(* C3.  A successful GET /combined-data?month=m is {statistics: S,         *)
(* barChart: B, pieChart: P} with S, B and P the bodies that /statistics,  *)
(* /bar-chart and /pie-chart give for month m.  Each part is the body its  *)
(* endpoint computes from the collection as it stood at some moment of the *)
(* request (for S, at the two moments of its two queries); when no         *)
(* document was inserted meanwhile, that is the present collection.        *)
(***************************************************************************)
\* The sizes the collection had between two of its sizes.
Versions(from, to) ==
    {n \in from..to : Len(remote) = 0 \/ n % Len(remote) = 0}

StatisticsOf(query, first, second) ==
    StatisticsBody(
        TotalSales(first, StartDate(query, tz), EndDate(query, tz)),
        TotalUnsold(second, StartDate(query, tz), EndDate(query, tz)))

C3_Theorem ==
    Succeeded("/combined-data") =>
        LET moments == Versions(last.since, last.at)
            query == last.query
        IN  /\ DOMAIN last.body = Parts
            /\ \E n1 \in moments : \E n2 \in moments :
                  /\ n1 <= n2
                  /\ last.body.statistics
                         = StatisticsOf(query, StoreAt(n1), StoreAt(n2))
            /\ \E n \in moments :
                  last.body.barChart = BarChartResponse(query, tz, StoreAt(n)).body
            /\ \E n \in moments :
                  last.body.pieChart = PieChartResponse(query, tz, StoreAt(n)).body

C3_Witness ==
    /\ Succeeded("/combined-data")
    /\ last.since = last.at
    /\ Len(last.body.barChart) > 0
    /\ last.body.pieChart # {}
    /\ last.body.statistics.soldItems > 0

(***************************************************************************)
(* C4.  As claimed: GET /combined-data never responds while one of its     *)
(* three requests is outstanding, also after another one failed.           *)
(* Promise.all rejects with the first rejection: C4_Claim is violated.     *)
(* As amended: the three requests are in flight together; a 200 is sent    *)
(* only when all three have been fulfilled; the 500 is sent with the first *)
(* rejection, whether or not the others have settled; and nothing is sent  *)
(* before one of the two.                                                  *)
(***************************************************************************)
HandlerOf(part) ==
    CASE part = "statistics" -> stat
      [] part = "barChart" -> bar
      [] part = "pieChart" -> pie

C4_Claim ==
    last.ep = "/combined-data" =>
        \A p \in Parts : comb.settled[p].state # "pending"

C4_Amended ==
    /\ comb.pc = "waiting" =>
          /\ last = NoResponse
          /\ \A p \in Parts : comb.settled[p].state # "rejected"
          /\ \E p \in Parts : comb.settled[p].state = "pending"
          /\ \A p \in Parts :
                comb.settled[p].state = "pending"
                    => HandlerOf(p).pc # "idle" /\ HandlerOf(p).from = "combined"
    /\ last.ep = "/combined-data" =>
          /\ comb.pc = "responded"
          /\ last.status \in {200, 500}
          /\ last.status = 200 =>
                \A p \in Parts : comb.settled[p].state = "fulfilled"
          /\ last.status = 500 =>
                \E p \in Parts : comb.settled[p].state = "rejected"

C4_Witness ==
    /\ last.ep = "/combined-data"
    /\ last.status = 500
    /\ comb.settled.statistics.state = "rejected"
    /\ comb.settled.barChart.state = "pending"
    /\ bar.pc = "aggregate"

(***************************************************************************)
(* C5.  With a valid month, GET /transactions returns the matching records *)
(* at offsets (page-1)*perPage .. page*perPage-1 of the filtered result,   *)
(* the records of the month whose title or description contains the search *)
(* string.  Stated for a server that reached its store.  The filter's      *)
(* price: {$regex} fails the cast of every query, so no page is ever       *)
(* returned: C5_Claim is violated.                                         *)
(***************************************************************************)
FilteredResult(docs, query) ==
    Select(docs,
        [all |-> DateConditions(StartDate(query, tz), EndDate(query, tz)),
         any |-> << [path |-> "title", op |-> "$regex", value |-> SearchOf(query)],
                    [path |-> "description", op |-> "$regex",
                     value |-> SearchOf(query)] >>])

PageAt(docs, p, n) ==
    [i \in 1..(IF p * n <= Len(docs) THEN n
               ELSE IF (p - 1) * n >= Len(docs) THEN 0
               ELSE Len(docs) - (p - 1) * n) |-> docs[(p - 1) * n + i]]

C5_Claim ==
    (connected /\ last.ep = "/transactions" /\ ValidMonth(last.query))
        => /\ last.status = 200
           /\ last.body = PageAt(FilteredResult(StoreAt(last.at), last.query),
                                 PageOf(last.query), PerPageOf(last.query))

(***************************************************************************)
(* C6.  For every month m in 1..12, December included, the records that    *)
(* /statistics, /bar-chart and /pie-chart count are exactly the stored     *)
(* records sold from the first day of month m of 2023 up to the first day  *)
(* of the following month.  The claim names no time zone: it is taken to   *)
(* hold when the month is read in UTC or in the server's local time.  On a *)
(* server west of UTC the filter of month 12 ends a day early under either *)
(* reading: C6_Claim is violated.                                          *)
(***************************************************************************)
MonthEndpoints == {"/statistics", "/bar-chart", "/pie-chart"}

C6_Claim ==
    (last.ep \in MonthEndpoints /\ last.status = 200 /\ ValidMonth(last.query))
        => LET docs == StoreAt(last.at)
               m == MonthNumber(last.query)
           IN  \/ Selected(docs, last.query) = InMonth(docs, m, 0)
               \/ Selected(docs, last.query) = InMonth(docs, m, tz)

(***************************************************************************)
(* C7.  In GET /bar-chart a record of the month with price p is counted in *)
(* exactly one bucket: the one of lower bound 100*k when 100*k <= p <      *)
(* 100*(k+1), k in 0..8, and the bucket "901-above" when p >= 901.  The    *)
(* boundaries end with Infinity, so a price of 901 or more is counted in   *)
(* the bucket of lower bound 900: C7_Claim is violated.                    *)
(***************************************************************************)
\* The bucket the claim names for a document, when it names one.
ClaimedBuckets(doc) ==
    IF "price" \notin DOMAIN doc THEN {}
    ELSE IF doc.price >= 901 * PriceScale THEN {DefaultId}
    ELSE IF doc.price >= 0 /\ doc.price < 900 * PriceScale
    THEN {NumberId(100 * (doc.price \div (100 * PriceScale)))}
    ELSE {}

C7_Claim ==
    Succeeded("/bar-chart") =>
        LET selected == Selected(StoreAt(last.at), last.query)
        IN  /\ SumCounts(last.body) = Len(selected)
            /\ \A i \in 1..Len(BucketIds) :
                  CountAt(last.body, BucketIds[i])
                      >= Len(SelectSeq(selected,
                                 LAMBDA d : BucketIds[i] \in ClaimedBuckets(d)))

(***************************************************************************)
(* C8.  For every store content (prices negative, fractional or missing    *)
(* included) and every month m in 1..12, the counts of a successful GET    *)
(* /bar-chart?month=m add up to the number of stored records sold in month *)
(* m, the month being read in UTC or in the server's local time.  The      *)
(* counts add up to the number of records the date filter selected         *)
(* (BucketsCoverSelection), but the filter is the one of C6: C8_Claim is   *)
(* violated.                                                               *)
(***************************************************************************)
C8_Claim ==
    (Succeeded("/bar-chart") /\ ValidMonth(last.query))
        => LET docs == StoreAt(last.at)
               m == MonthNumber(last.query)
           IN  \/ SumCounts(last.body) = Len(InMonth(docs, m, 0))
               \/ SumCounts(last.body) = Len(InMonth(docs, m, tz))

BucketsCoverSelection ==
    Succeeded("/bar-chart")
        => SumCounts(last.body) = Len(Selected(StoreAt(last.at), last.query))

(***************************************************************************)
(* C9.  Each successful GET /initialize-db appends every fetched object as *)
(* a new document: after k successful calls against a dataset of n objects *)
(* the collection holds k*n more documents than at the start (which is     *)
(* empty here), and no step of any handler removes or changes a document   *)
(* already stored.                                                         *)
(***************************************************************************)
C9_Step ==
    /\ Len(store') >= Len(store)
    /\ SubSeq(store', 1, Len(store)) = store
    /\ okInits' = okInits => store' = store
    /\ okInits' # okInits =>
          /\ okInits' = okInits + 1
          /\ Len(store') = Len(store) + Len(remote)
          /\ \A i \in 1..Len(remote) :
                store'[Len(store) + i] = ToDocument(remote[i])

C9_Theorem ==
    /\ [](Len(store) = okInits * Len(remote))
    /\ [][C9_Step]_vars

C9_Witness ==
    /\ okInits = 2
    /\ Len(remote) = 2
    /\ Len(store) = 4
    /\ store[1] = store[3]

(***************************************************************************)
(* C10.  As claimed: in every successful GET /combined-data the barChart   *)
(* counts and the pieChart counts add up to the same number, also while    *)
(* GET /initialize-db runs.  The two aggregations are two queries, and an  *)
(* insertMany may land between them: C10_Claim is violated.                *)
(* As amended: they add up to the same number in every successful response *)
(* during whose handling no document was inserted.                         *)
(***************************************************************************)
C10_Claim ==
    Succeeded("/combined-data")
        => SumCounts(last.body.barChart) = SumGroupCounts(last.body.pieChart)

C10_Amended ==
    (Succeeded("/combined-data") /\ last.since = last.at)
        => SumCounts(last.body.barChart) = SumGroupCounts(last.body.pieChart)

C10_Witness ==
    /\ Succeeded("/combined-data")
    /\ last.since = last.at
    /\ okInits > 0
    /\ SumCounts(last.body.barChart) = 2
    /\ SumGroupCounts(last.body.pieChart) = 2

====
